---- MODULE Spec2Model ----
(***************************************************************************)
(* Model of templates/validate.py: the template-catalog validator.         *)
(*                                                                         *)
(* main() is a linear pipeline over three external inputs (config.json,    *)
(* config.schema.json, the icons directory):                               *)
(*   Loading -> FormatCheck -> DuplicateCheck -> SchemaCheck -> IconCheck  *)
(*           -> Done | Failed                                              *)
(* Strings are sequences of one-character strings, so that difflib's       *)
(* sequence matching and Python's string ordering can be computed.         *)
(* A JSON value held under a key of an entry is a record [t, s]:           *)
(*   t = "missing" (key absent), "null" (JSON null) or "str" (a string s). *)
(***************************************************************************)
EXTENDS Integers, Sequences, FiniteSets, TLC

VARIABLES
    config,          \* config.json: load status and parsed value
    schema,          \* config.schema.json: load status and parsed value
    icons_listable,  \* whether os.listdir(icons_dir) succeeds
    icon_files,      \* what os.listdir(icons_dir) returns, in listing order
    pc,              \* position of main()
    exit_code,       \* -1 while running, else the argument of sys.exit
    output,          \* the lines printed so far
    duplicate_ids,   \* main's duplicate_ids
    schema_errors,   \* main's schema_errors
    item_validated,  \* indices validated one by one against schema["items"]
    icon_errors,     \* main's icon_errors
    unused_icons     \* the unused files validate_icons warns about

vars == <<config, schema, icons_listable, icon_files, pc, exit_code, output,
          duplicate_ids, schema_errors, item_validated, icon_errors, unused_icons>>

(***************************************************************************)
(* Bounds of the model.                                                    *)
(***************************************************************************)
MaxEntries == 3    \* longest catalog
MaxFiles == 2      \* longest directory listing
MaxNameLen == 2    \* longest generated filename (SpecSimilar)

(***************************************************************************)
(* Strings and JSON values.                                                *)
(***************************************************************************)
\* The characters in use, in code-point order (Python compares str by code point).
CodeOrder == <<"-", ".", "0", "1", "2", "3", "4", "5", "6", "7", "8", "9",
               "A", "B", "a", "b", "e", "g", "k", "l", "n", "o", "p", "r",
               "t", "u", "w", "x", "y", "z">>

Ord(c) == CHOOSE i \in 1..Len(CodeOrder) : CodeOrder[i] = c

RECURSIVE StrLess(_, _)
\* Python's x < y on str
StrLess(x, y) ==
    IF y = <<>> THEN FALSE
    ELSE IF x = <<>> THEN TRUE
    ELSE IF Head(x) = Head(y) THEN StrLess(Tail(x), Tail(y))
    ELSE Ord(Head(x)) < Ord(Head(y))

Missing == [t |-> "missing", s |-> <<>>]
Null == [t |-> "null", s |-> <<>>]
Str(s) == [t |-> "str", s |-> s]

\* Python truthiness of entry.get(key): None and "" are falsy
Truthy(v) == v.t = "str" /\ v.s # <<>>

\* entry.get(key, default): the default is used only when the key is absent
GetDefault(entry, key, default) ==
    IF entry[key].t = "missing" THEN default ELSE entry[key]

Digits == <<"0", "1", "2", "3", "4", "5", "6", "7", "8", "9">>

RECURSIVE IntToStr(_)
\* str(i) for i >= 0
IntToStr(i) ==
    IF i < 10 THEN <<Digits[i + 1]>>
    ELSE IntToStr(i \div 10) \o <<Digits[(i % 10) + 1]>>

Range(s) == {s[i] : i \in 1..Len(s)}

Distinct(l) == \A i, j \in 1..Len(l) : i # j => l[i] # l[j]

\* The sequences of distinct elements of S of length at most n
RECURSIVE ListingsUpTo(_, _)
ListingsUpTo(S, n) ==
    IF n = 0 THEN {<<>>}
    ELSE LET shorter == ListingsUpTo(S, n - 1)
         IN shorter \cup {l \in {Append(m, x) : m \in shorter, x \in S} :
                             Len(l) = n /\ Distinct(l)}

\* The sequences of elements of S of length at most n
RECURSIVE SeqsUpTo(_, _)
SeqsUpTo(S, n) ==
    IF n = 0 THEN {<<>>}
    ELSE LET shorter == SeqsUpTo(S, n - 1)
         IN shorter \cup {Append(l, x) : l \in {m \in shorter : Len(m) = n - 1},
                                         x \in S}

(***************************************************************************)
(* difflib, as find_similar_filename uses it (Python standard library).    *)
(* get_close_matches(word, possibilities, n=1, cutoff) sets seq2 = word,   *)
(* seq1 = each possibility x, keeps (ratio, x) when ratio >= cutoff        *)
(* (real_quick_ratio and quick_ratio are upper bounds of ratio, so the     *)
(* three tests together are ratio >= cutoff), and returns                  *)
(* heapq.nlargest(1, result), which for n = 1 is max(result): the greatest *)
(* (ratio, x) tuple, so equal ratios are decided by the greater string.    *)
(* Strings here are far shorter than 200, so autojunk never applies.       *)
(***************************************************************************)
CutoffNum == 6     \* cutoff=0.6 as CutoffNum / CutoffDen
CutoffDen == 10

RECURSIVE RunLen(_, _, _, _, _, _)
\* length of the common run a[i..], b[j..] inside a[..ahi), b[..bhi); 0-based, half-open
RunLen(a, b, i, j, ahi, bhi) ==
    IF i < ahi /\ j < bhi /\ a[i + 1] = b[j + 1]
    THEN 1 + RunLen(a, b, i + 1, j + 1, ahi, bhi)
    ELSE 0

\* SequenceMatcher.find_longest_match: the longest block, earliest in a, then in b
find_longest_match(a, b, alo, ahi, blo, bhi) ==
    LET pairs == {<<i, j>> : i \in alo..(ahi - 1), j \in blo..(bhi - 1)}
        size(p) == RunLen(a, b, p[1], p[2], ahi, bhi)
        best == IF pairs = {} THEN 0
                ELSE CHOOSE k \in {size(p) : p \in pairs} :
                         \A p \in pairs : size(p) <= k
    IN IF best = 0 THEN <<alo, blo, 0>>
       ELSE LET at == {p \in pairs : size(p) = best}
                first == CHOOSE p \in at :
                             \A q \in at : p[1] < q[1] \/ (p[1] = q[1] /\ p[2] <= q[2])
            IN <<first[1], first[2], best>>

RECURSIVE MatchCount(_, _, _, _, _, _)
\* sum of the sizes of SequenceMatcher.get_matching_blocks() over a[alo:ahi], b[blo:bhi]
MatchCount(a, b, alo, ahi, blo, bhi) ==
    LET m == find_longest_match(a, b, alo, ahi, blo, bhi)
    IN IF m[3] = 0 THEN 0
       ELSE m[3] + MatchCount(a, b, alo, m[1], blo, m[2])
                 + MatchCount(a, b, m[1] + m[3], ahi, m[2] + m[3], bhi)

\* SequenceMatcher(a=x, b=word).ratio() = 2.0 * matches / (len(a) + len(b)), as <<num, den>>
Ratio(x, word) == <<2 * MatchCount(x, word, 0, Len(x), 0, Len(word)), Len(x) + Len(word)>>

\* ratio >= cutoff (the word is a non-empty icon value, so the denominator is positive)
ClearsCutoff(r) == r[1] * CutoffDen >= CutoffNum * r[2]

RatioLess(r, q) == r[1] * q[2] < q[1] * r[2]

RatioEq(r, q) == ~RatioLess(r, q) /\ ~RatioLess(q, r)

\* (ratio, x) < (ratio', y) on Python tuples
TupleLess(r, x, q, y) == RatioLess(r, q) \/ (RatioEq(r, q) /\ StrLess(x, y))

\* the strings get_close_matches keeps
CloseCandidates(word, possibilities) ==
    {x \in Range(possibilities) : ClearsCutoff(Ratio(x, word))}

\* variant: among equal ratios the file listed first wins
find_similar_filename_first_listed(filename, available_files) ==
    LET close == CloseCandidates(filename, available_files)
        top == {x \in close : \A y \in close : ~RatioLess(Ratio(x, filename), Ratio(y, filename))}
    IN IF close = {} THEN Missing
       ELSE Str(available_files[CHOOSE i \in 1..Len(available_files) :
                    /\ available_files[i] \in top
                    /\ \A j \in 1..(i - 1) : available_files[j] \notin top])

\* find_similar_filename: Missing stands for None
find_similar_filename(filename, available_files) ==
    LET close == CloseCandidates(filename, available_files)
    IN IF close = {} THEN Missing
       ELSE Str(CHOOSE x \in close :
                    \A y \in close : y = x \/ TupleLess(Ratio(y, filename), y,
                                                       Ratio(x, filename), x))

(***************************************************************************)
(* The inputs.                                                             *)
(*   config = [status, is_list, items]: status is "ok", "ioerror" (the     *)
(*   file cannot be read) or "malformed" (json.load raises); is_list tells *)
(*   whether the parsed document is a list; items are its elements, each   *)
(*   [obj, id, name, icon] with obj = FALSE for an element that is not a   *)
(*   JSON object.                                                          *)
(*   schema = [status, required, id_string, has_max] stands for            *)
(*     {"type": "array", "maxItems": 1 (when has_max),                     *)
(*      "items": {"type": "object", "required": [required...],             *)
(*                "properties": {"id": {"type": "string"} (when id_string) *)
(*   }}}                                                                   *)
(***************************************************************************)
Entry(id, name, icon) == [obj |-> TRUE, id |-> id, name |-> name, icon |-> icon]

NonObject == [obj |-> FALSE, id |-> Missing, name |-> Missing, icon |-> Missing]

\* jsonschema.validate(instance=entry, schema=schema["items"]) raises no ValidationError
ItemValid(entry, sch) ==
    /\ entry.obj
    /\ \A k \in sch.required : entry[k].t # "missing"
    /\ sch.id_string => entry.id.t \in {"missing", "str"}

\* jsonschema.validate(instance=config, schema=schema) raises no ValidationError
BulkValid(entries, sch) ==
    /\ \A i \in 1..Len(entries) : ItemValid(entries[i], sch)
    /\ sch.has_max => Len(entries) <= 1

(***************************************************************************)
(* validate_json_format                                                    *)
(***************************************************************************)
validate_json_format(cfg) ==
    cfg.is_list /\ \A i \in 1..Len(cfg.items) : cfg.items[i].obj

(***************************************************************************)
(* validate_duplicate_ids.  The result is built by iterating a Python set, *)
(* whose order is unspecified: the operator gives every list it can be.    *)
(***************************************************************************)
CollectedIds(entries) ==
    LET keep(e) == Truthy(e.id)
        kept == SelectSeq(entries, keep)
    IN [i \in 1..Len(kept) |-> kept[i].id]

Count(seq, v) == Cardinality({i \in 1..Len(seq) : seq[i] = v})

Orderings(S) == {l \in [1..Cardinality(S) -> S] : Distinct(l)}

\* variant: an id counts as duplicated from its third occurrence on
validate_duplicate_ids_over_two(entries) ==
    LET ids == CollectedIds(entries)
    IN Orderings({id \in Range(ids) : Count(ids, id) > 2})

\* variant: the duplicated ids are taken from the list, not from set(ids)
validate_duplicate_ids_no_set(entries) ==
    LET ids == CollectedIds(entries)
        dup(id) == Count(ids, id) > 1
    IN {SelectSeq(ids, dup)}

validate_duplicate_ids(entries) ==
    LET ids == CollectedIds(entries)
    IN Orderings({id \in Range(ids) : Count(ids, id) > 1})

(***************************************************************************)
(* validate_schema.  The records keep the fields taken from the entry;     *)
(* "error" and "path" are the validator library's text.                    *)
(***************************************************************************)
EntryLabel(i) == Str(<<"e", "n", "t", "r", "y", "-">> \o IntToStr(i))

Unknown == Str(<<"u", "n", "k", "n", "o", "w", "n">>)

\* variant: entry.get(key) or default
SchemaErrorRecordOr(entry, i) ==
    [id |-> IF Truthy(entry.id) THEN entry.id ELSE EntryLabel(i),
     name |-> IF Truthy(entry.name) THEN entry.name ELSE Unknown]

\* the record appended for entries[i + 1], i being enumerate's 0-based index
SchemaErrorRecord(entry, i) ==
    [id |-> GetDefault(entry, "id", EntryLabel(i)),
     name |-> GetDefault(entry, "name", Unknown)]

RECURSIVE SchemaErrorsFrom(_, _, _)
SchemaErrorsFrom(entries, sch, i) ==
    IF i >= Len(entries) THEN <<>>
    ELSE (IF ItemValid(entries[i + 1], sch) THEN <<>>
          ELSE <<SchemaErrorRecord(entries[i + 1], i)>>)
         \o SchemaErrorsFrom(entries, sch, i + 1)

\* variant: the per-entry loop stops at the first entry that fails
validate_schema_first_only(entries, sch) ==
    LET all == SchemaErrorsFrom(entries, sch, 0)
    IN IF BulkValid(entries, sch) \/ all = <<>> THEN <<>> ELSE <<Head(all)>>

validate_schema(entries, sch) ==
    IF BulkValid(entries, sch) THEN <<>> ELSE SchemaErrorsFrom(entries, sch, 0)

\* the 0-based indices that validate_schema validates against schema["items"]
ItemsValidated(entries, sch) ==
    IF BulkValid(entries, sch) THEN {} ELSE 0..(Len(entries) - 1)

(***************************************************************************)
(* validate_icons, after os.listdir succeeded                              *)
(***************************************************************************)
IconErrorRecord(entry, files) ==
    [id |-> GetDefault(entry, "id", Unknown),
     name |-> GetDefault(entry, "name", Unknown),
     icon |-> entry.icon,
     suggestion |-> find_similar_filename(entry.icon.s, files)]

RECURSIVE validate_icons_not_none(_, _)
\* variant: "if icon is not None" in place of "if icon"
validate_icons_not_none(entries, files) ==
    IF entries = <<>> THEN <<>>
    ELSE LET entry == Head(entries)
         IN (IF entry.icon.t = "str" /\ entry.icon.s \notin Range(files)
             THEN <<IconErrorRecord(entry, files)>>
             ELSE <<>>)
            \o validate_icons_not_none(Tail(entries), files)

RECURSIVE validate_icons_once_per_file(_, _)
\* variant: a missing file is reported for the first entry that names it only
validate_icons_once_per_file(entries, files) ==
    IF entries = <<>> THEN <<>>
    ELSE LET entry == Head(entries)
         IN (IF Truthy(entry.icon) /\ entry.icon.s \notin Range(files)
             THEN <<IconErrorRecord(entry, files)>>
             ELSE <<>>)
            \o validate_icons_once_per_file(
                   Tail(entries),
                   IF Truthy(entry.icon) /\ entry.icon.s \notin Range(files)
                   THEN Append(files, entry.icon.s) ELSE files)

RECURSIVE validate_icons(_, _)
validate_icons(entries, files) ==
    IF entries = <<>> THEN <<>>
    ELSE LET entry == Head(entries)
         IN (IF Truthy(entry.icon) /\ entry.icon.s \notin Range(files)
             THEN <<IconErrorRecord(entry, files)>>
             ELSE <<>>)
            \o validate_icons(Tail(entries), files)

UsedIcons(entries) == {entries[i].icon.s : i \in {j \in 1..Len(entries) : Truthy(entries[j].icon)}}

\* variant: the membership test is inverted ("f in used_icons")
UnusedIconsInverted(entries, files) ==
    LET unused(f) == f \in UsedIcons(entries)
    IN SelectSeq(files, unused)

UnusedIcons(entries, files) ==
    LET unused(f) == f \notin UsedIcons(entries)
    IN SelectSeq(files, unused)

(***************************************************************************)
(* main(): one action per step of the pipeline.  A printed line is         *)
(* [step, kind]: step 0 is the banner and the closing line, 1..5 the       *)
(* numbered steps; kind is "start" (the numbered progress line), "error"   *)
(* (an "Error ..." line of a helper, or the lines that itemise one error   *)
(* record), "warning" (the "Warning: Found <n> unused icon files:"         *)
(* header), "warning-item" (the line of one unused file), "ok" or "failed" *)
(* (the cross line of a step, which for steps 4 and 5 is the               *)
(* "Found <n> ... errors:" header).                                        *)
(***************************************************************************)
Line(step, kind) == [step |-> step, kind |-> kind]

\* lines 137-142: banner, step 1, load_config(), load_schema()
Loading ==
    /\ pc = "Loading"
    /\ LET printed == output \o <<Line(0, "start"), Line(1, "start")>>
       IN IF config.status # "ok" \/ schema.status # "ok"
          THEN /\ output' = Append(printed, Line(1, "error"))
               /\ exit_code' = 1
               /\ pc' = "Failed"
          ELSE /\ output' = printed
               /\ exit_code' = exit_code
               /\ pc' = "FormatCheck"
    /\ UNCHANGED <<config, schema, icons_listable, icon_files, duplicate_ids,
                   schema_errors, item_validated, icon_errors, unused_icons>>

\* lines 144-150
FormatCheck ==
    /\ pc = "FormatCheck"
    /\ LET printed == Append(output, Line(2, "start"))
       IN IF ~validate_json_format(config)
          THEN /\ output' = printed \o <<Line(2, "error"), Line(2, "failed")>>
               /\ exit_code' = 1
               /\ pc' = "Failed"
          ELSE /\ output' = Append(printed, Line(2, "ok"))
               /\ exit_code' = exit_code
               /\ pc' = "DuplicateCheck"
    /\ UNCHANGED <<config, schema, icons_listable, icon_files, duplicate_ids,
                   schema_errors, item_validated, icon_errors, unused_icons>>

\* variant: duplicate ids are reported but the run goes on
DuplicateCheckContinues ==
    /\ pc = "DuplicateCheck"
    /\ \E result \in validate_duplicate_ids(config.items) :
          /\ duplicate_ids' = result
          /\ output' = output \o <<Line(3, "start"),
                                   Line(3, IF result # <<>> THEN "failed" ELSE "ok")>>
          /\ exit_code' = exit_code
          /\ pc' = "SchemaCheck"
    /\ UNCHANGED <<config, schema, icons_listable, icon_files,
                   schema_errors, item_validated, icon_errors, unused_icons>>

\* lines 152-159
DuplicateCheck ==
    /\ pc = "DuplicateCheck"
    /\ \E result \in validate_duplicate_ids(config.items) :
          /\ duplicate_ids' = result
          /\ LET printed == Append(output, Line(3, "start"))
             IN IF result # <<>>
                THEN /\ output' = Append(printed, Line(3, "failed"))
                     /\ exit_code' = 1
                     /\ pc' = "Failed"
                ELSE /\ output' = Append(printed, Line(3, "ok"))
                     /\ exit_code' = exit_code
                     /\ pc' = "SchemaCheck"
    /\ UNCHANGED <<config, schema, icons_listable, icon_files,
                   schema_errors, item_validated, icon_errors, unused_icons>>

\* lines 161-172
SchemaCheck ==
    /\ pc = "SchemaCheck"
    /\ schema_errors' = validate_schema(config.items, schema)
    /\ item_validated' = ItemsValidated(config.items, schema)
    /\ LET printed == Append(output, Line(4, "start"))
       IN IF schema_errors' # <<>>
          THEN /\ output' = printed \o <<Line(4, "failed")>>
                                    \o [i \in 1..(2 * Len(schema_errors')) |-> Line(4, "error")]
               /\ exit_code' = 1
               /\ pc' = "Failed"
          ELSE /\ output' = Append(printed, Line(4, "ok"))
               /\ exit_code' = exit_code
               /\ pc' = "IconCheck"
    /\ UNCHANGED <<config, schema, icons_listable, icon_files, duplicate_ids,
                   icon_errors, unused_icons>>

\* lines 174-190, with validate_icons' os.listdir (lines 94-102) and warning (126-132)
IconCheck ==
    /\ pc = "IconCheck"
    /\ LET printed == Append(output, Line(5, "start"))
       IN IF ~icons_listable
          THEN /\ output' = Append(printed, Line(5, "error"))
               /\ exit_code' = 1
               /\ pc' = "Failed"
               /\ UNCHANGED <<icon_errors, unused_icons>>
          ELSE /\ icon_errors' = validate_icons(config.items, icon_files)
               /\ unused_icons' = UnusedIcons(config.items, icon_files)
               /\ LET warned == IF unused_icons' # <<>>
                                THEN Append(printed, Line(5, "warning"))
                                     \o [i \in 1..Len(unused_icons') |->
                                            Line(5, "warning-item")]
                                ELSE printed
                  IN IF icon_errors' # <<>>
                     THEN /\ output' = warned \o <<Line(5, "failed")>>
                                \o [i \in 1..Len(icon_errors') |-> Line(5, "error")]
                          /\ exit_code' = 1
                          /\ pc' = "Failed"
                     ELSE /\ output' = warned \o <<Line(5, "ok"), Line(0, "ok")>>
                          /\ exit_code' = 0
                          /\ pc' = "Done"
    /\ UNCHANGED <<config, schema, icons_listable, icon_files, duplicate_ids,
                   schema_errors, item_validated>>

Next == Loading \/ FormatCheck \/ DuplicateCheck \/ SchemaCheck \/ IconCheck

(***************************************************************************)
(* The inputs the runs are checked on.                                     *)
(***************************************************************************)
T1 == Str(<<"t", "1">>)
T2 == Str(<<"t", "2">>)
NameA == Str(<<"A">>)
NameB == Str(<<"B">>)
FileA == <<"a">>
FileB == <<"b">>
FileAB == <<"a", "b">>

EntryPool ==
    { Entry(T1, NameA, Str(FileA)),
      Entry(T1, NameB, Missing),
      Entry(T2, NameB, Str(FileB)),
      Entry(T2, Missing, Str(FileAB)),
      Entry(Missing, Missing, Missing),
      Entry(Missing, NameA, Str(FileAB)),
      Entry(Null, Str(<<>>), Str(<<>>)),
      Entry(Str(<<>>), Null, Str(FileA)) }

NoDocument(status) == [status |-> status, is_list |-> FALSE, items |-> <<>>]

Configs ==
    {[status |-> "ok", is_list |-> TRUE, items |-> items] :
        items \in SeqsUpTo(EntryPool \cup {NonObject}, MaxEntries)}
    \cup {NoDocument("ok"), NoDocument("ioerror"), NoDocument("malformed")}

NoSchema(status) ==
    [status |-> status, required |-> {}, id_string |-> FALSE, has_max |-> FALSE]

Schemas ==
    {[status |-> "ok", required |-> r, id_string |-> s, has_max |-> m] :
        r \in {{}, {"id", "name"}}, s \in BOOLEAN, m \in BOOLEAN}
    \cup {NoSchema("ioerror"), NoSchema("malformed")}

InitRun ==
    /\ pc = "Loading"
    /\ exit_code = -1
    /\ output = <<>>
    /\ duplicate_ids = <<>>
    /\ schema_errors = <<>>
    /\ item_validated = {}
    /\ icon_errors = <<>>
    /\ unused_icons = <<>>

Init ==
    /\ config \in Configs
    /\ schema \in Schemas
    /\ \/ icons_listable = TRUE /\ icon_files \in ListingsUpTo({FileA, FileB}, MaxFiles)
       \/ icons_listable = FALSE /\ icon_files = <<>>
    /\ InitRun

Spec == Init /\ [][Next]_vars

(***************************************************************************)
(* Runs on one entry whose icon is looked up among generated filenames:    *)
(* the inputs for find_similar_filename.                                   *)
(***************************************************************************)
Logoo == <<"l", "o", "g", "o", "o", ".", "p", "n", "g">>
Xyz123 == <<"x", "y", "z", "1", "2", "3", ".", "p", "n", "g">>
Logo == <<"l", "o", "g", "o", ".", "p", "n", "g">>
Banner == <<"b", "a", "n", "n", "e", "r", ".", "p", "n", "g">>

GeneratedNames == SeqsUpTo({"a", "b"}, MaxNameLen) \ {<<>>}

InitSimilar ==
    /\ \E word \in GeneratedNames \cup {Logoo, Xyz123} :
          config = [status |-> "ok", is_list |-> TRUE,
                    items |-> <<Entry(T1, NameA, Str(word))>>]
    /\ schema = [status |-> "ok", required |-> {}, id_string |-> FALSE, has_max |-> FALSE]
    /\ icons_listable = TRUE
    /\ icon_files \in ListingsUpTo(GeneratedNames \cup {Logo, Banner}, MaxFiles)
    /\ InitRun

SpecSimilar == InitSimilar /\ [][Next]_vars

(***************************************************************************)
(* Runs on catalogs that vary the id alone: the inputs for                 *)
(* validate_duplicate_ids, long enough for two different duplicated ids.   *)
(***************************************************************************)
IdValues == {Missing, Null, Str(<<>>), T1, T2}

InitIds ==
    /\ \E ids \in SeqsUpTo(IdValues, MaxEntries + 2) :
          config = [status |-> "ok", is_list |-> TRUE,
                    items |-> [i \in 1..Len(ids) |-> Entry(ids[i], NameA, Missing)]]
    /\ schema \in {[status |-> "ok", required |-> r, id_string |-> FALSE, has_max |-> FALSE] :
                      r \in {{}, {"id", "name"}}}
    /\ icons_listable = TRUE
    /\ icon_files = <<FileA>>
    /\ InitRun

SpecIds == InitIds /\ [][Next]_vars

(***************************************************************************)
(* Vocabulary of the properties.                                           *)
(***************************************************************************)
Entries == config.items

\* the numbered steps whose progress line has been printed, in print order
StepsStarted ==
    LET numbered(l) == l.kind = "start" /\ l.step >= 1
        lines == SelectSeq(output, numbered)
    IN [i \in 1..Len(lines) |-> lines[i].step]

Started(step) == \E i \in 1..Len(output) : output[i] = Line(step, "start")

Terminated == pc \in {"Done", "Failed"}

\* validate_icons has returned to main (step 5 ran and os.listdir succeeded)
IconsReturned == Terminated /\ Started(5) /\ icons_listable

\* the 1-based positions of the entries that satisfy Test, in catalog order
Positions(Test(_)) ==
    LET hit(i) == Test(Entries[i])
    IN SelectSeq([i \in 1..Len(Entries) |-> i], hit)

ListOfObjects ==
    config.status = "ok" /\ config.is_list /\ \A i \in 1..Len(Entries) : Entries[i].obj

\* the non-empty id values that two or more entries carry
DuplicatedIds ==
    {v \in {Entries[i].id : i \in 1..Len(Entries)} :
        /\ v.t = "str" /\ v.s # <<>>
        /\ \E i, j \in 1..Len(Entries) : i # j /\ Entries[i].id = v /\ Entries[j].id = v}

IconResolves(e) == (e.icon.t = "str" /\ e.icon.s # <<>>) => e.icon.s \in Range(icon_files)

(***************************************************************************)
(* C1.  The steps run in the fixed order 1 (Loading), 2 (FormatCheck),     *)
(* 3 (DuplicateCheck), 4 (SchemaCheck), 5 (IconCheck); the step that fails *)
(* exits with code 1, and no later step runs, prints a line or computes a  *)
(* result: nothing happens after the run has terminated.                   *)
(***************************************************************************)
StageNumber(p) ==
    CASE p = "Loading" -> 1 [] p = "FormatCheck" -> 2 [] p = "DuplicateCheck" -> 3
      [] p = "SchemaCheck" -> 4 [] p = "IconCheck" -> 5 [] OTHER -> 6

C1_StateOrder ==
    LET n == Len(StepsStarted)
    IN /\ StepsStarted = [i \in 1..n |-> i]
       /\ \A i, j \in 1..Len(output) :
              (i < j /\ output[j].step >= 1) => output[i].step <= output[j].step
       /\ ~Terminated => n = StageNumber(pc) - 1 /\ exit_code = -1
       /\ pc = "Done" => n = 5 /\ exit_code = 0
       /\ pc = "Failed" =>
             /\ exit_code = 1
             /\ n >= 1 /\ output[Len(output)].step = n
             /\ output[Len(output)].kind \in {"error", "failed"}
       /\ \A i \in 1..Len(output) :
              output[i].kind \in {"error", "failed"} =>
                  /\ pc = "Failed" /\ exit_code = 1
                  /\ \A j \in i..Len(output) :
                        output[j].step = output[i].step /\ output[j].kind \in {"error", "failed"}
       /\ n < 3 => duplicate_ids = <<>>
       /\ n < 4 => schema_errors = <<>> /\ item_validated = {}
       /\ n < 5 => icon_errors = <<>> /\ unused_icons = <<>>

C1_Step ==
    /\ ~Terminated
    /\ \/ pc' = "Failed"
       \/ StageNumber(pc') = StageNumber(pc) + 1

C1_FailFastInOrder == []C1_StateOrder /\ [][C1_Step]_vars

\* the duplicate-id scenario: step 3 failed, steps 4 and 5 left no trace
C1_Witness ==
    /\ Entries = <<Entry(T1, NameA, Str(FileA)), Entry(T1, NameB, Missing)>>
    /\ pc = "Failed" /\ exit_code = 1
    /\ duplicate_ids = <<T1>>
    /\ ~Started(4) /\ ~Started(5)

(***************************************************************************)
(* C2.  When the catalog is a list of objects whose non-empty ids are      *)
(* pairwise different, every entry satisfies the item schema, every        *)
(* non-empty icon value is a file of the (listable) icons directory, then  *)
(* the run never fails, can always take its next step, and ends in Done    *)
(* with exit code 0.                                                       *)
(***************************************************************************)
ValidInputs ==
    /\ ListOfObjects
    /\ \A i, j \in 1..Len(Entries) :
          (i # j /\ Entries[i].id.t = "str" /\ Entries[i].id.s # <<>>)
              => Entries[i].id # Entries[j].id
    /\ schema.status = "ok"
    /\ \A i \in 1..Len(Entries) : ItemValid(Entries[i], schema)
    /\ icons_listable
    /\ \A i \in 1..Len(Entries) : IconResolves(Entries[i])

C2_ValidCatalogExitsZero ==
    ValidInputs =>
        /\ pc # "Failed"
        /\ pc = "Done" => exit_code = 0
        /\ pc # "Done" => ENABLED Next

\* a valid run that ended, on a catalog with a resolved icon, an entry without
\* an icon, and more entries than the schema's maxItems allows
C2_Witness ==
    /\ ValidInputs /\ pc = "Done" /\ exit_code = 0
    /\ Len(Entries) >= 2 /\ schema.has_max
    /\ \E i \in 1..Len(Entries) : Entries[i].icon.t = "str" /\ Entries[i].icon.s # <<>>
    /\ \E i \in 1..Len(Entries) : Entries[i].icon.t = "missing"

(***************************************************************************)
(* C3.  Exit code 0 implies the success invariants.                        *)
(***************************************************************************)
\* C3 as stated: in Done the catalog is a list of objects, every id present
\* in an entry is unique, every entry satisfies the item schema and the schema
\* step passed, and every non-empty icon is a file of the icons directory.
C3_Original_PresentIdsUnique ==
    pc = "Done" =>
        /\ exit_code = 0
        /\ ListOfObjects
        /\ \A i, j \in 1..Len(Entries) :
              (i # j /\ Entries[i].id.t = "str") => Entries[i].id # Entries[j].id
        /\ \A i \in 1..Len(Entries) : ItemValid(Entries[i], schema)
        /\ schema_errors = <<>>
        /\ \A i \in 1..Len(Entries) : IconResolves(Entries[i])

\* C3 amended: as above, with uniqueness of the ids that are non-empty
\* strings (an empty or null id may repeat).
C3_DoneImpliesInvariants ==
    pc = "Done" =>
        /\ exit_code = 0
        /\ ListOfObjects
        /\ \A i, j \in 1..Len(Entries) :
              (i # j /\ Entries[i].id.t = "str" /\ Entries[i].id.s # <<>>)
                  => Entries[i].id # Entries[j].id
        /\ \A i \in 1..Len(Entries) : ItemValid(Entries[i], schema)
        /\ schema_errors = <<>>
        /\ \A i \in 1..Len(Entries) : IconResolves(Entries[i])

\* a successful run on three entries with ids and icons
C3_Witness ==
    /\ pc = "Done" /\ exit_code = 0 /\ Len(Entries) = 3
    /\ \E i, j \in 1..3 : Entries[i].id = T1 /\ Entries[j].id = T2
    /\ \E i \in 1..3 : Entries[i].icon.t = "str" /\ Entries[i].icon.s # <<>>

(***************************************************************************)
(* C4.  Once step 3 has run, duplicate_ids holds each non-empty id value   *)
(* carried by two or more entries exactly once and nothing else (entries   *)
(* without an id do not count), and when there is such a value the run     *)
(* fails in step 3 with exit code 1.                                       *)
(***************************************************************************)
C4_DuplicatesExact ==
    /\ Started(3) =>
          /\ Range(duplicate_ids) = DuplicatedIds
          /\ Distinct(duplicate_ids)
          /\ DuplicatedIds # {} =>
                pc = "Failed" /\ exit_code = 1 /\ ~Started(4) /\ ~Started(5)
          /\ DuplicatedIds = {} => pc # "Failed" \/ Started(4)
    /\ (ListOfObjects /\ schema.status = "ok" /\ DuplicatedIds # {}) =>
          pc \in {"Loading", "FormatCheck", "DuplicateCheck", "Failed"}

\* two different ids are duplicated, next to entries whose id is missing or empty
C4_Witness ==
    /\ pc = "Failed" /\ Started(3)
    /\ Range(duplicate_ids) = {T1, T2}
    /\ \E i \in 1..Len(Entries) : Entries[i].id.t # "str" \/ Entries[i].id.s = <<>>

(***************************************************************************)
(* C5.  Every IoError (an unreadable catalog file, schema file or icons    *)
(* directory) and every MalformedJson error ends the run before any check  *)
(* has run or printed a result, and only such failures end it before any   *)
(* check.  The run violates it: os.listdir is called inside validate_icons *)
(* in step 5, so an unlistable icons directory ends the run after the      *)
(* format, duplicate-id and schema checks have run and printed.            *)
(***************************************************************************)
\* the run was ended by an "Error ..." line of load_json_file (step 1) or of
\* validate_icons' os.listdir (step 5 with an unlistable directory)
AbortedByLoadError ==
    /\ pc = "Failed"
    /\ output[Len(output)] \in {Line(1, "error"), Line(5, "error")}
    /\ output[Len(output)].step = 5 => ~icons_listable

NoCheckRan ==
    /\ \A i \in 1..Len(output) : output[i].step <= 1
    /\ duplicate_ids = <<>> /\ schema_errors = <<>> /\ item_validated = {}
    /\ icon_errors = <<>> /\ unused_icons = <<>>

\* C5: a run ended by a load error has run and printed no check, and a failed
\* run in which no check has run was ended by a load error.
C5_Original_AbortBeforeAnyCheck ==
    /\ AbortedByLoadError => NoCheckRan
    /\ (pc = "Failed" /\ NoCheckRan) => AbortedByLoadError

(***************************************************************************)
(* C6.  Once step 4 has run: when the whole catalog satisfies the schema,  *)
(* schema_errors is empty and no entry was validated on its own; otherwise *)
(* every entry was validated on its own and schema_errors holds one record *)
(* per entry that fails the item schema, in catalog order, and none for an *)
(* entry that satisfies it.                                                *)
(***************************************************************************)
FailsItemSchema(e) == ~ItemValid(e, schema)

C6_TwoPass ==
    Started(4) =>
        LET failing == Positions(FailsItemSchema)
        IN IF BulkValid(Entries, schema)
           THEN schema_errors = <<>> /\ item_validated = {}
           ELSE /\ item_validated = {i - 1 : i \in 1..Len(Entries)}
                /\ Len(schema_errors) = Len(failing)
                /\ \A k \in 1..Len(failing) :
                      LET e == Entries[failing[k]]
                      IN /\ e.id.t # "missing" => schema_errors[k].id = e.id
                         /\ e.name.t # "missing" => schema_errors[k].name = e.name

\* the bulk check failed; an entry that passes lies between two that fail
C6_Witness ==
    /\ Started(4) /\ Len(Entries) = 3 /\ Len(schema_errors) = 2
    /\ ~ItemValid(Entries[1], schema) /\ ItemValid(Entries[2], schema)
    /\ ~ItemValid(Entries[3], schema)
    /\ Entries[1] # Entries[3]

(***************************************************************************)
(* C7.  The id and name of a schema error record.                          *)
(***************************************************************************)
\* C7 as stated: the record of the failing entry at 0-based index i has the
\* entry's id, or "entry-<i>" when the id is missing, null or empty, and the
\* entry's name, or "unknown" when the name is missing, null or empty.
C7_Original_FallbackWhenFalsy ==
    (Started(4) /\ schema_errors # <<>>) =>
        LET failing == Positions(FailsItemSchema)
        IN \A k \in 1..Len(failing) :
              LET e == Entries[failing[k]]
              IN /\ schema_errors[k].id =
                        (IF e.id.t = "str" /\ e.id.s # <<>> THEN e.id
                         ELSE Str(<<"e", "n", "t", "r", "y", "-">> \o IntToStr(failing[k] - 1)))
                 /\ schema_errors[k].name =
                        (IF e.name.t = "str" /\ e.name.s # <<>> THEN e.name
                         ELSE Str(<<"u", "n", "k", "n", "o", "w", "n">>))

\* C7 amended: the record has "entry-<i>" as id only when the entry has no id
\* key and "unknown" as name only when it has no name key; an id or name that
\* is present, null and empty included, is copied as it is.
C7_FallbackWhenMissing ==
    (Started(4) /\ schema_errors # <<>>) =>
        LET failing == Positions(FailsItemSchema)
        IN \A k \in 1..Len(failing) :
              LET e == Entries[failing[k]]
              IN /\ schema_errors[k].id =
                        (IF e.id.t # "missing" THEN e.id
                         ELSE Str(<<"e", "n", "t", "r", "y", "-">> \o IntToStr(failing[k] - 1)))
                 /\ schema_errors[k].name =
                        (IF e.name.t # "missing" THEN e.name
                         ELSE Str(<<"u", "n", "k", "n", "o", "w", "n">>))

\* records for an entry without id and name at index 1 and for one whose id is null
C7_Witness ==
    /\ Started(4) /\ Len(schema_errors) = 2
    /\ schema_errors[1].id = Null /\ schema_errors[1].name = Str(<<>>)
    /\ schema_errors[2].id = Str(<<"e", "n", "t", "r", "y", "-", "1">>)
    /\ schema_errors[2].name = Str(<<"u", "n", "k", "n", "o", "w", "n">>)

(***************************************************************************)
(* C8.  Once validate_icons has returned, icon_errors holds one record, in *)
(* catalog order, per entry whose icon is non-empty and not a file of the  *)
(* directory (two entries naming the same absent file give two records);   *)
(* no record belongs to an entry without icon or with an empty one; the    *)
(* failure is reported once, after the whole list is built, followed by    *)
(* one line per record; and the run exits 1 exactly when icon_errors is    *)
(* not empty.                                                              *)
(***************************************************************************)
Unresolved(e) == ~IconResolves(e)

C8_IconErrorsExact ==
    IconsReturned =>
        LET unresolved == Positions(Unresolved)
            reported == {i \in 1..Len(output) : output[i] = Line(5, "error")}
        IN /\ Len(icon_errors) = Len(unresolved)
           /\ \A k \in 1..Len(unresolved) :
                 /\ icon_errors[k].icon = Entries[unresolved[k]].icon
                 /\ Entries[unresolved[k]].id.t # "missing" =>
                        icon_errors[k].id = Entries[unresolved[k]].id
           /\ \A k \in 1..Len(icon_errors) :
                 icon_errors[k].icon.t = "str" /\ icon_errors[k].icon.s # <<>>
           /\ Cardinality(reported) = Len(icon_errors)
           /\ \A i \in reported : \E j \in 1..(i - 1) : output[j] = Line(5, "failed")
           /\ (exit_code = 1) <=> (icon_errors # <<>>)
           /\ (exit_code = 0) <=> (icon_errors = <<>>)

\* two entries name the same absent file, next to an entry with an empty icon
C8_Witness ==
    /\ IconsReturned /\ Len(Entries) = 3 /\ Len(icon_errors) = 2
    /\ icon_errors[1].icon = icon_errors[2].icon
    /\ icon_errors[1].id # icon_errors[2].id
    /\ \E i \in 1..3 : Entries[i].icon = Str(<<>>)

(***************************************************************************)
(* C9.  The suggestion of an icon error record.                            *)
(***************************************************************************)
\* the listed files whose similarity to the word reaches the cutoff and is not
\* exceeded by another listed file
BestScoring(word) ==
    {x \in Range(icon_files) :
        /\ Ratio(x, word)[1] * CutoffDen >= CutoffNum * Ratio(x, word)[2]
        /\ \A y \in Range(icon_files) :
              Ratio(y, word)[1] * Ratio(x, word)[2] <= Ratio(x, word)[1] * Ratio(y, word)[2]}

SpecExamples(rec) ==
    /\ (rec.icon.s = Logoo /\ Range(icon_files) = {Logo, Banner}) =>
          rec.suggestion = Str(Logo)
    /\ (rec.icon.s = Xyz123 /\ Range(icon_files) = {Logo, Banner}) =>
          rec.suggestion = Missing

\* C9 as stated: the suggestion is the best-scoring file among those scoring at
\* least 0.6, the first of them in listing order when several score the same;
\* there is no suggestion when no file reaches 0.6.
C9_Original_TieFirstListed ==
    IconsReturned =>
        \A k \in 1..Len(icon_errors) :
            LET rec == icon_errors[k]
                best == BestScoring(rec.icon.s)
            IN /\ best = {} => rec.suggestion = Missing
               /\ best # {} =>
                     \E i \in 1..Len(icon_files) :
                         /\ icon_files[i] \in best
                         /\ \A j \in 1..(i - 1) : icon_files[j] \notin best
                         /\ rec.suggestion = Str(icon_files[i])
               /\ SpecExamples(rec)

\* C9 amended: as above, but among files that score the same the suggestion is
\* the greatest in code-point order, wherever it stands in the listing.
C9_TieGreatestName ==
    IconsReturned =>
        \A k \in 1..Len(icon_errors) :
            LET rec == icon_errors[k]
                best == BestScoring(rec.icon.s)
            IN /\ best = {} => rec.suggestion = Missing
               /\ best # {} =>
                     /\ rec.suggestion.t = "str" /\ rec.suggestion.s \in best
                     /\ \A y \in best : y = rec.suggestion.s \/ StrLess(y, rec.suggestion.s)
               /\ SpecExamples(rec)

\* "ab" is absent, "a" and "b" score the same and "b", listed last, is suggested
C9_Witness ==
    /\ IconsReturned /\ Len(icon_errors) = 1
    /\ icon_errors[1].icon = Str(FileAB)
    /\ icon_files = <<FileA, FileB>>
    /\ icon_errors[1].suggestion = Str(FileB)

(***************************************************************************)
(* C10.  Unused icon files.                                                *)
(***************************************************************************)
InsertAt(files, k, f) == SubSeq(files, 1, k) \o <<f>> \o SubSeq(files, k + 1, Len(files))

\* files that no entry references and that the directory does not hold
UnreferencedExtras ==
    {f \in {FileA, FileB, FileAB} :
        /\ f \notin Range(icon_files)
        /\ \A i \in 1..Len(Entries) : Entries[i].icon # Str(f)}

ExitCodeOf(errors) == IF errors # <<>> THEN 1 ELSE 0

WithoutSuggestion(errors) ==
    [k \in 1..Len(errors) |->
        [id |-> errors[k].id, name |-> errors[k].name, icon |-> errors[k].icon]]

UnusedReportExact ==
    /\ Range(unused_icons) =
          {f \in Range(icon_files) : \A i \in 1..Len(Entries) : Entries[i].icon # Str(f)}
    /\ Len(unused_icons) = Cardinality(Range(unused_icons))
    /\ Cardinality({i \in 1..Len(output) : output[i] = Line(5, "warning")})
          = (IF unused_icons # <<>> THEN 1 ELSE 0)
    /\ Cardinality({i \in 1..Len(output) : output[i] = Line(5, "warning-item")})
          = Len(unused_icons)
    /\ \A i \in 1..Len(output) :
          output[i] = Line(5, "warning-item") =>
              /\ \E j \in 1..(i - 1) : output[j] = Line(5, "warning")
              /\ \A j \in 1..(i - 1) : output[j].kind \notin {"failed", "error", "ok"}
                                          \/ output[j].step < 5

\* C10 as stated: the unused report is exactly the files no entry references,
\* and a directory that differs only by a file no entry references gives the
\* same list returned by validate_icons and the same exit code.
C10_Original_SameReturnedList ==
    IconsReturned =>
        /\ UnusedReportExact
        /\ \A f \in UnreferencedExtras : \A k \in 0..Len(icon_files) :
              LET other == validate_icons(Entries, InsertAt(icon_files, k, f))
              IN other = icon_errors /\ ExitCodeOf(other) = exit_code

\* C10 amended: as above, but the two returned lists agree on their records' id,
\* name and icon, in order; the suggestions may differ.
C10_UnusedIconsInformational ==
    IconsReturned =>
        /\ UnusedReportExact
        /\ \A f \in UnreferencedExtras : \A k \in 0..Len(icon_files) :
              LET other == validate_icons(Entries, InsertAt(icon_files, k, f))
              IN /\ WithoutSuggestion(other) = WithoutSuggestion(icon_errors)
                 /\ ExitCodeOf(other) = exit_code

\* the run succeeds on entries that reference "a" alone, in a directory that
\* also holds "b", and reports "b" as unused
C10_Witness ==
    /\ pc = "Done" /\ exit_code = 0
    /\ Range(icon_files) = {FileA, FileB}
    /\ \E i \in 1..Len(Entries) : Entries[i].icon = Str(FileA)
    /\ unused_icons = <<FileB>>
    /\ UnreferencedExtras = {FileAB}

====
